---------------------------- MODULE Spec2Model ----------------------------
(***************************************************************************)
(* A model of the smart order router (AlphaRouter): route enumeration,     *)
(* amount distribution and the split optimiser, as one request pipeline.   *)
(*                                                                         *)
(* Tokens are their addresses (naturals), a pool is the tuple              *)
(* (token0, token1, fee) with token0 < token1, and a pool's address is     *)
(* that tuple (Pool.getAddress is injective on it).  Currency amounts are  *)
(* integers, fractions are numerator/denominator pairs.                    *)
(***************************************************************************)
EXTENDS Integers, Sequences, FiniteSets, TLC

(***************************************************************************)
(* Bounds of the model.                                                    *)
(***************************************************************************)
NumTokens == 3       \* token addresses 1..NumTokens
MaxPools == 3        \* longest candidate pool list of SpecRoutes
MaxHopsBound == 3    \* largest maxHops of SpecRoutes
MaxRate == 2         \* quoter price per slice, 1..MaxRate
MaxGasPrice == 1     \* gas price in quote token per gas unit, 0..MaxGasPrice
MaxFailed == 2       \* most failed (route, percent) slots in one response
MaxSplitsCfg == 4    \* largest configured maxSplits
MaxAmount == 12      \* largest trade amount of SpecDistribution
MaxSubgraphPools == 3 \* most pools the subgraph returns in SpecPools
MaxTVL == 2          \* totalValueLockedUSDFloat of a subgraph pool, 1..MaxTVL
MaxCalls == 3        \* most calls in one multicall
MaxGasUsed == 2      \* gas a call reports as used, 1..MaxGasUsed

Tokens == 1..NumTokens
Fees == {500, 3000}

EXACT_INPUT == "EXACT_INPUT"
EXACT_OUTPUT == "EXACT_OUTPUT"
TradeTypes == {EXACT_INPUT, EXACT_OUTPUT}

NoToken == 0

(* An optional value: absent, or present with a value.                     *)
Absent == << >>
Some(v) == << v >>

VARIABLES
  pc,               \* the stage the request is at
  tradeType,        \* EXACT_INPUT (routeExactIn) or EXACT_OUTPUT (routeExactOut)
  routingConfig,    \* [maxSwapsPerPath, maxSplits, distributionPercent]
  tokenIn, tokenOut,
  pools,            \* poolAccessor.getAllPools(): the candidate pool list
  amount,           \* the requested trade amount
  gasPriceWei,
  routes,           \* computeAllRoutes' result
  percents, amounts,
  routesWithQuotes, \* the quote provider's response
  percentToQuotes,  \* percent -> RouteWithValidQuote[] (buckets; sorted in place)
  bestQuote, bestSwap, splits,
  outcome,          \* "pending", "plan", "null" or "error"
  error,            \* the error raised, when outcome = "error"
  swapRoute,        \* the plan, when outcome = "plan"
  allPools,         \* subgraphProvider.getPools(): the subgraph's pools
  tokenList,        \* the tokens the token provider knows
  poolsBySelection, \* getPoolsToConsider's seven slices
  calls,            \* the calls of one multicall, in submission order
  aggregateResults, \* the aggregator contract's answer, one entry per call
  multicallResult,  \* what the multicall provider returns, or its failure
  secondRun,        \* what a second run of the optimiser returns
  gasPriceFetch,    \* "pending", or how the gas-price fetch settled
  arraySort         \* where the engine's Array.sort puts quotes that tie

selectionVars == << allPools, tokenList, poolsBySelection >>

multicallVars == << calls, aggregateResults, multicallResult >>

vars == << pc, tradeType, routingConfig, tokenIn, tokenOut, pools, amount,
           gasPriceWei, routes, percents, amounts, routesWithQuotes,
           percentToQuotes, bestQuote, bestSwap, splits, outcome, error,
           swapRoute, selectionVars, multicallVars, secondRun, gasPriceFetch,
           arraySort >>

(***************************************************************************)
(* Pools and routes.                                                       *)
(***************************************************************************)
Pool(a, b, fee) ==
  [token0 |-> IF a < b THEN a ELSE b, token1 |-> IF a < b THEN b ELSE a, fee |-> fee]

AllPools == { Pool(a, b, f) : a \in Tokens, b \in Tokens, f \in Fees } \
            { Pool(a, a, f) : a \in Tokens, f \in Fees }

getPoolAddress(pool) == << pool.token0, pool.token1, pool.fee >>

involvesToken(pool, token) == token = pool.token0 \/ token = pool.token1

RouteSOR(routePools, input, output) ==
  [pools |-> routePools, input |-> input, output |-> output]

(* A variant that cuts a branch one pool too late.                         *)
exceedsMaxHops_offByOne(currentRoute, maxHops) == Len(currentRoute) > maxHops + 1

(* A variant that cuts a branch one pool too early.                        *)
exceedsMaxHops_cutsEarly(currentRoute, maxHops) == Len(currentRoute) >= maxHops

(* if (currentRoute.length > maxHops) return                               *)
exceedsMaxHops(currentRoute, maxHops) == Len(currentRoute) > maxHops

(* computeRoutes: the depth-first search; the value is the sequence of    *)
(* routes the call pushes, in push order.  poolsUsed is the set of used   *)
(* indexes, _previousTokenOut is NoToken when the argument is omitted.    *)
RECURSIVE computeRoutes(_, _, _, _, _, _, _)
computeRoutes(tIn, tOut, poolList, maxHops, currentRoute, poolsUsed, _previousTokenOut) ==
  IF exceedsMaxHops(currentRoute, maxHops) THEN << >>
  ELSE IF Len(currentRoute) > 0 /\ involvesToken(currentRoute[Len(currentRoute)], tOut)
  THEN << RouteSOR(currentRoute, tIn, tOut) >>
  ELSE
    LET previousTokenOut == IF _previousTokenOut # NoToken THEN _previousTokenOut ELSE tIn
        visit(i) ==
          LET curPool == poolList[i]
              currentTokenOut == IF curPool.token0 = previousTokenOut
                                 THEN curPool.token1 ELSE curPool.token0
          IN IF i \in poolsUsed THEN << >>
             ELSE IF ~involvesToken(curPool, previousTokenOut) THEN << >>
             ELSE computeRoutes(tIn, tOut, poolList, maxHops,
                                Append(currentRoute, curPool),
                                poolsUsed \cup {i}, currentTokenOut)
        loop[i \in 1..(Len(poolList) + 1)] ==
          IF i > Len(poolList) THEN << >> ELSE visit(i) \o loop[i + 1]
    IN loop[1]

computeAllRoutes(tIn, tOut, poolList, maxHops) ==
  computeRoutes(tIn, tOut, poolList, maxHops, << >>, {}, NoToken)

(***************************************************************************)
(* Amount distribution.                                                    *)
(***************************************************************************)
Fraction(num, den) == [numerator |-> num, denominator |-> den]

(* A variant that multiplies the numerators only.                          *)
multiply_numeratorsOnly(amt, frac) ==
  Fraction(amt.numerator * frac.numerator, amt.denominator)

multiply(amt, frac) ==
  Fraction(amt.numerator * frac.numerator, amt.denominator * frac.denominator)

(* A variant whose loop runs while i < 100 / distributionPercent.          *)
getAmountDistribution_exclusive(amt, config) ==
  LET distributionPercent == config.distributionPercent
      n == (99 \div distributionPercent)
  IN << [i \in 1..n |-> i * distributionPercent],
        [i \in 1..n |-> multiply(amt, Fraction(i * distributionPercent, 100))] >>

(* for (let i = 1; i <= 100 / distributionPercent; i++): the last i is the *)
(* integer part of 100 / distributionPercent.                              *)
getAmountDistribution(amt, config) ==
  LET distributionPercent == config.distributionPercent
      n == 100 \div distributionPercent
  IN << [i \in 1..n |-> i * distributionPercent],
        [i \in 1..n |-> multiply(amt, Fraction(i * distributionPercent, 100))] >>

(***************************************************************************)
(* Quotes.  An AmountQuote carries the amount and four optional fields; a  *)
(* failed quote has them absent.                                           *)
(***************************************************************************)
AmountQuote(amt, quote, sqrtPriceX96AfterList, initializedTicksCrossedList, gasEstimate) ==
  [amount |-> amt, quote |-> quote,
   sqrtPriceX96AfterList |-> sqrtPriceX96AfterList,
   initializedTicksCrossedList |-> initializedTicksCrossedList,
   gasEstimate |-> gasEstimate]

FailedQuote(amt) == AmountQuote(amt, Absent, Absent, Absent, Absent)

(* What the quoter contract answers for slice i of a route priced at rate: *)
(* the output shrinks, the input grows, with the size of the slice.        *)
quoterAnswer(tt, rate, i) ==
  IF tt = EXACT_INPUT THEN rate * i - (i - 1) ELSE rate * i + (i - 1)

(* The quoter's gas estimate of a route: one unit per pool crossed.        *)
quoterGasEstimate(route) == Len(route.pools)

(* The gas model: the route's gas cost priced in the quote token.          *)
estimateGasCost(route, gasEstimate, gasPrice) ==
  [gasEstimate |-> gasEstimate, gasCostInQuoteToken |-> gasEstimate * gasPrice]

(* new RouteWithValidQuote({...}): the quote adjusted for the gas cost.    *)
RouteWithValidQuote(route, rawQuote, amt, percent, gasEstimate, gasPrice, tt) ==
  LET gas == estimateGasCost(route, gasEstimate, gasPrice)
  IN [route |-> route, quote |-> rawQuote, amount |-> amt, percent |-> percent,
      gasEstimate |-> gas.gasEstimate,
      quoteAdjustedForGas |->
        IF tt = EXACT_INPUT THEN rawQuote - gas.gasCostInQuoteToken
        ELSE rawQuote + gas.gasCostInQuoteToken,
      tradeType |-> tt]

(* A variant that looks at the quote and the gas estimate only.            *)
isValidQuote_quoteAndGasOnly(amountQuote) ==
  ~( amountQuote.quote = Absent \/ amountQuote.gasEstimate = Absent )

isValidQuote(amountQuote) ==
  ~( amountQuote.quote = Absent
     \/ amountQuote.sqrtPriceX96AfterList = Absent
     \/ amountQuote.initializedTicksCrossedList = Absent
     \/ amountQuote.gasEstimate = Absent )

(* getBestSwapRoute's loops over routesWithQuotes and quotes: the buckets  *)
(* after the slots (r, i) up to the given one, in row-major order.         *)
RECURSIVE buildPercentToQuotes(_, _, _, _, _, _, _)
buildPercentToQuotes(rwq, pcts, gasPrice, tt, r, i, acc) ==
  IF r > Len(rwq) THEN acc
  ELSE IF i > Len(rwq[r][2]) THEN buildPercentToQuotes(rwq, pcts, gasPrice, tt, r + 1, 1, acc)
  ELSE
    LET route == rwq[r][1]
        amountQuote == rwq[r][2][i]
        percent == pcts[i]
        rq == RouteWithValidQuote(route, amountQuote.quote[1], amountQuote.amount, percent,
                                  amountQuote.gasEstimate[1], gasPrice, tt)
        bucket == IF percent \in DOMAIN acc THEN acc[percent] ELSE << >>
        next == IF isValidQuote(amountQuote)
                THEN [p \in (DOMAIN acc) \cup {percent} |->
                        IF p = percent THEN Append(bucket, rq) ELSE acc[p]]
                ELSE acc
    IN buildPercentToQuotes(rwq, pcts, gasPrice, tt, r, i + 1, next)

(***************************************************************************)
(* The split optimiser (getBestSwapRouteBy).                               *)
(***************************************************************************)
by(routeQuote) == routeQuote.quoteAdjustedForGas

(* The comparator handed to Array.sort: -1 when a is strictly better.      *)
sortComparator(tt, a, b) ==
  IF tt = EXACT_INPUT THEN (IF by(a) > by(b) THEN -1 ELSE 1)
  ELSE (IF by(a) < by(b) THEN -1 ELSE 1)

(* The comparator never answers 0, so for two quotes that tie it answers   *)
(* 1 whichever comes first: it is not a consistent comparison function,   *)
(* and where Array.sort puts such quotes is the engine's choice.  One      *)
(* engine moves an element left past those the comparator orders it       *)
(* before (ties keep their insertion order), another moves it left past    *)
(* those the comparator orders after it (ties end up reversed).            *)
ArraySorts == {"insertionOrder", "reverseOrder"}

placedBefore(tt, x, y) ==
  IF arraySort = "insertionOrder"
  THEN sortComparator(tt, x, y) < 0
  ELSE sortComparator(tt, y, x) > 0

(* Array.sort as an insertion sort: each element goes before the first    *)
(* element of the sorted prefix that it is placed before.                 *)
RECURSIVE insertSorted(_, _, _)
insertSorted(tt, sorted, x) ==
  IF sorted = << >> THEN << x >>
  ELSE IF placedBefore(tt, x, Head(sorted)) THEN << x >> \o sorted
  ELSE << Head(sorted) >> \o insertSorted(tt, Tail(sorted), x)

(* A variant that leaves the quotes as they were inserted.                 *)
sortQuotes_asInserted(tt, routeQuotes, sorted) == sorted \o routeQuotes

RECURSIVE sortQuotes(_, _, _)
sortQuotes(tt, routeQuotes, sorted) ==
  IF routeQuotes = << >> THEN sorted
  ELSE sortQuotes(tt, Tail(routeQuotes), insertSorted(tt, sorted, Head(routeQuotes)))

percentToSortedQuotesOf(tt, buckets) ==
  [p \in DOMAIN buckets |-> sortQuotes(tt, buckets[p], << >>)]


(* The set of pool addresses of the used routes.                           *)
usedPoolAddresses(usedRoutes) ==
  UNION { { getPoolAddress(usedRoutes[k].pools[n]) : n \in DOMAIN usedRoutes[k].pools } :
            k \in DOMAIN usedRoutes }

(* A variant that finds no route re-using a pool.                          *)
routeUsesPools_never(routeQuote, poolAddressSet) == FALSE

routeUsesPools(routeQuote, poolAddressSet) ==
  \E n \in DOMAIN routeQuote.route.pools :
     getPoolAddress(routeQuote.route.pools[n]) \in poolAddressSet

(* A variant that takes the first candidate whatever pools it uses.        *)
firstRouteIgnoringUsedPools(usedRoutes, candidateRouteQuotes) ==
  IF candidateRouteQuotes = << >> THEN Absent ELSE Some(Head(candidateRouteQuotes))

(* The first quote of the candidates whose route re-uses no used pool:     *)
(* Some(routeQuote), or Absent for the code's null.                        *)
RECURSIVE findFirstRouteNotUsingUsedPools(_, _)
findFirstRouteNotUsingUsedPools(usedRoutes, candidateRouteQuotes) ==
  IF candidateRouteQuotes = << >> THEN Absent
  ELSE IF routeUsesPools(Head(candidateRouteQuotes), usedPoolAddresses(usedRoutes))
  THEN findFirstRouteNotUsingUsedPools(usedRoutes, Tail(candidateRouteQuotes))
  ELSE Some(Head(candidateRouteQuotes))

(* A variant that never finds a quote better.                              *)
quoteCompFn_never(tt, a, b) == FALSE

quoteCompFn(tt, a, b) == IF tt = EXACT_INPUT THEN a > b ELSE a < b

(* The state the split loops carry: the best so far, and whether a read of *)
(* a missing bucket has thrown.                                            *)
SearchState(quote, swap, threw) == [bestQuote |-> quote, bestSwap |-> swap, threw |-> threw]

Thrown(st) == [st EXCEPT !.threw = TRUE]

(* A variant that compares the wrong way round.                            *)
keepBetter_inverted(tt, st, newQuote, newSwap) ==
  IF quoteCompFn(tt, st.bestQuote, newQuote)
  THEN SearchState(newQuote, newSwap, st.threw)
  ELSE st

(* One candidate against the best so far.                                  *)
keepBetter(tt, st, newQuote, newSwap) ==
  IF quoteCompFn(tt, newQuote, st.bestQuote)
  THEN SearchState(newQuote, newSwap, st.threw)
  ELSE st

(* A variant that pairs a percent with itself.                             *)
complementPercent_same(percentA) == percentA

(* const percentB = 100 - percentA                                         *)
complementPercent(percentA) == 100 - percentA

(* The 2-split loop from (1-based) index i on.                             *)
RECURSIVE split2Loop(_, _, _, _, _)
split2Loop(tt, sorted, pcts, i, st) ==
  IF st.threw \/ (i - 1) * 2 >= Len(pcts) THEN st
  ELSE
    LET percentA == pcts[i]
        percentB == complementPercent(percentA)
    IN IF percentA \notin DOMAIN sorted THEN Thrown(st)
       ELSE
         LET routeWithQuoteA == sorted[percentA][1]
             found == IF percentB \in DOMAIN sorted
                      THEN findFirstRouteNotUsingUsedPools(<< routeWithQuoteA.route >>,
                                                           sorted[percentB])
                      ELSE Absent
             after == IF found = Absent THEN st
                      ELSE keepBetter(tt, st, by(routeWithQuoteA) + by(found[1]),
                                      << routeWithQuoteA, found[1] >>)
         IN split2Loop(tt, sorted, pcts, i + 1, after)

(* The inner loop of the 3-split search, for a fixed A, from index j on.   *)
RECURSIVE split3Inner(_, _, _, _, _, _)
split3Inner(tt, sorted, pcts, routeWithQuoteA, j, st) ==
  IF st.threw \/ j > Len(pcts) THEN st
  ELSE
    LET percentB == pcts[j]
        remainingPercent == complementPercent(routeWithQuoteA.percent)
        percentC == remainingPercent - percentB
    IN IF percentB \notin DOMAIN sorted THEN Thrown(st)
       ELSE
         LET foundB == findFirstRouteNotUsingUsedPools(<< routeWithQuoteA.route >>,
                                                       sorted[percentB])
             foundC == IF foundB # Absent /\ percentC \in DOMAIN sorted
                       THEN findFirstRouteNotUsingUsedPools(
                              << routeWithQuoteA.route, foundB[1].route >>, sorted[percentC])
                       ELSE Absent
             after == IF foundC = Absent THEN st
                      ELSE keepBetter(tt, st,
                                      by(routeWithQuoteA) + by(foundB[1]) + by(foundC[1]),
                                      << routeWithQuoteA, foundB[1], foundC[1] >>)
         IN split3Inner(tt, sorted, pcts, routeWithQuoteA, j + 1, after)

(* The outer loop of the 3-split search from index i on.                   *)
RECURSIVE split3Loop(_, _, _, _, _)
split3Loop(tt, sorted, pcts, i, st) ==
  IF st.threw \/ i > Len(pcts) THEN st
  ELSE IF pcts[i] \notin DOMAIN sorted THEN Thrown(st)
  ELSE split3Loop(tt, sorted, pcts, i + 1,
                  split3Inner(tt, sorted, pcts, sorted[pcts[i]][1], i + 1, st))

(* A variant that wants a second quote in the 100% bucket.                 *)
hasBaseline_needsTwo(sorted) == 100 \in DOMAIN sorted /\ Len(sorted[100]) > 1

(* percentToSortedQuotes[100] is there                                     *)
hasBaseline(sorted) == 100 \in DOMAIN sorted

(* A variant whose loop stops one element early.                           *)
RECURSIVE sum_stopsEarly(_)
sum_stopsEarly(currencyAmounts) ==
  IF Len(currencyAmounts) <= 2 THEN currencyAmounts[1]
  ELSE sum_stopsEarly(SubSeq(currencyAmounts, 1, Len(currencyAmounts) - 1))
       + currencyAmounts[Len(currencyAmounts) - 1]

(* sum, over the currency amounts of the best swap.                        *)
RECURSIVE sum(_)
sum(currencyAmounts) ==
  IF Len(currencyAmounts) = 1 THEN currencyAmounts[1]
  ELSE sum(SubSeq(currencyAmounts, 1, Len(currencyAmounts) - 1))
       + currencyAmounts[Len(currencyAmounts)]

(* reduce((sum, x) => sum.add(x), BigNumber.from(0))                       *)
RECURSIVE reduceAdd(_, _)
reduceAdd(values, zero) ==
  IF values = << >> THEN zero
  ELSE reduceAdd(SubSeq(values, 1, Len(values) - 1), zero) + values[Len(values)]

RouteAmount(rq) ==
  [route |-> rq.route, amount |-> rq.amount, quote |-> rq.quote,
   quoteGasAdjusted |-> rq.quoteAdjustedForGas, percentage |-> rq.percent,
   estimatedGasUsed |-> rq.gasEstimate]

(* sort((a, b) => b.percentage - a.percentage): by percentage, largest     *)
(* first, equal percentages in their order.                                *)
RECURSIVE insertByPercentage(_, _)
insertByPercentage(sorted, x) ==
  IF sorted = << >> THEN << x >>
  ELSE IF Head(sorted).percentage - x.percentage < 0 THEN << x >> \o sorted
  ELSE << Head(sorted) >> \o insertByPercentage(Tail(sorted), x)

RECURSIVE sortByPercentage(_, _)
sortByPercentage(routeAmounts, sorted) ==
  IF routeAmounts = << >> THEN sorted
  ELSE sortByPercentage(Tail(routeAmounts), insertByPercentage(sorted, Head(routeAmounts)))

(* The plan getBestSwapRouteBy returns for the best swap.                  *)
assemblePlan(swap) ==
  [quote |-> sum([k \in DOMAIN swap |-> swap[k].quote]),
   quoteGasAdjusted |-> sum([k \in DOMAIN swap |-> swap[k].quoteAdjustedForGas]),
   estimatedGasUsed |-> reduceAdd([k \in DOMAIN swap |-> swap[k].gasEstimate], 0),
   routeAmounts |-> sortByPercentage([k \in DOMAIN swap |-> RouteAmount(swap[k])], << >>)]

(* A variant that searches the 3-splits whatever the best swap is.         *)
searchesThreeSplits_always(swap) == TRUE

(* if (splits == 3 && bestSwap.length == 2)                                *)
searchesThreeSplits(swap) == Len(swap) = 2

(* What a run of the optimiser ends in: a plan, null or an error.          *)
Ended(result, raised, plan) == [outcome |-> result, error |-> raised, swapRoute |-> plan]

(* A variant that runs one more pass.                                      *)
loopContinues_oneMore(numSplits, maxSplits) == numSplits <= maxSplits + 1

(* while (splits <= routingConfig.maxSplits)                               *)
loopContinues(numSplits, maxSplits) == numSplits <= maxSplits

(* The while loop of getBestSwapRouteBy from the pass with the given       *)
(* splits on, and what follows it.                                         *)
RECURSIVE whileSplits(_, _, _, _, _, _)
whileSplits(tt, sorted, pcts, maxSplits, numSplits, st) ==
  IF st.threw THEN Ended("error", "TypeError", << >>)
  ELSE IF ~loopContinues(numSplits, maxSplits)
  THEN Ended("plan", "", assemblePlan(st.bestSwap))
  ELSE IF numSplits = 2
  THEN whileSplits(tt, sorted, pcts, maxSplits, numSplits + 1,
                   split2Loop(tt, sorted, pcts, 1, st))
  ELSE IF numSplits = 3
  THEN whileSplits(tt, sorted, pcts, maxSplits, numSplits + 1,
                   IF searchesThreeSplits(st.bestSwap)
                   THEN split3Loop(tt, sorted, pcts, 1, st) ELSE st)
  ELSE IF numSplits = 4 THEN Ended("error", "Four splits is not supported", << >>)
  ELSE whileSplits(tt, sorted, pcts, maxSplits, numSplits + 1, st)

(* A variant that does not sort the buckets.                               *)
getBestSwapRouteBy_unsorted(tt, buckets, pcts, config) ==
  IF ~hasBaseline(buckets) THEN Ended("null", "", << >>)
  ELSE whileSplits(tt, buckets, pcts, config.maxSplits, 2,
                   SearchState(by(buckets[100][1]), << buckets[100][1] >>, FALSE))

(* getBestSwapRouteBy as one call.                                         *)
getBestSwapRouteBy(tt, buckets, pcts, config) ==
  LET percentToSortedQuotes == percentToSortedQuotesOf(tt, buckets)
  IN IF ~hasBaseline(percentToSortedQuotes) THEN Ended("null", "", << >>)
     ELSE whileSplits(tt, percentToSortedQuotes, pcts, config.maxSplits, 2,
                      SearchState(by(percentToSortedQuotes[100][1]),
                                  << percentToSortedQuotes[100][1] >>, FALSE))

(* getBestSwapRoute as one call: the buckets of the valid quotes, then     *)
(* getBestSwapRouteBy.                                                     *)
getBestSwapRoute(pcts, rwq, tt, gasPrice, config) ==
  getBestSwapRouteBy(tt, buildPercentToQuotes(rwq, pcts, gasPrice, tt, 1, 1, << >>),
                     pcts, config)

(***************************************************************************)
(* Pool selection (getPoolsToConsider).  A token's id is its address; its  *)
(* symbol is a name, never an address: the negated address stands for it.  *)
(***************************************************************************)
symbolOf(token) == 0 - token

(* Ether.onChain(chainId).wrapped.address                                  *)
wethAddress == 3

SubgraphPool(pool, tvl) ==
  [id |-> getPoolAddress(pool),
   token0 |-> [id |-> pool.token0, symbol |-> symbolOf(pool.token0)],
   token1 |-> [id |-> pool.token1, symbol |-> symbolOf(pool.token1)],
   feeTier |-> pool.fee,
   totalValueLockedUSDFloat |-> tvl]

tokenExists(listed, symbol) == \E t \in listed : symbolOf(t) = symbol

(* sortBy(pool => -pool.totalValueLockedUSDFloat): stable, ascending in    *)
(* the key, so largest TVL first and equal TVLs in their order.            *)
RECURSIVE insertByTVL(_, _)
insertByTVL(sorted, x) ==
  IF sorted = << >> THEN << x >>
  ELSE IF 0 - Head(sorted).totalValueLockedUSDFloat > 0 - x.totalValueLockedUSDFloat
  THEN << x >> \o sorted
  ELSE << Head(sorted) >> \o insertByTVL(Tail(sorted), x)

RECURSIVE sortByTVL(_, _)
sortByTVL(subgraphPools, sorted) ==
  IF subgraphPools = << >> THEN sorted
  ELSE sortByTVL(Tail(subgraphPools), insertByTVL(sorted, Head(subgraphPools)))

(* A variant that takes the whole list.                                    *)
slice_all(list, n) == list

(* slice(0, n)                                                             *)
slice(list, n) == SubSeq(list, 1, IF n < Len(list) THEN n ELSE Len(list))

(* uniqBy(pool => pool.id): the first occurrence of each id is kept.       *)
RECURSIVE uniqBy(_, _)
uniqBy(list, kept) ==
  IF list = << >> THEN kept
  ELSE IF \E k \in DOMAIN kept : kept[k].id = Head(list).id
  THEN uniqBy(Tail(list), kept)
  ELSE uniqBy(Tail(list), Append(kept, Head(list)))

(* addToAddressSet: the ids of the pools, added to poolAddressesSoFar.     *)
addToAddressSet(poolAddressesSoFar, list) ==
  poolAddressesSoFar \cup { list[k].id : k \in DOMAIN list }

(* The flatMap of a second-hop slice: for each second-hop token, in order, *)
(* the first topNSecondHop unchosen pools that touch it.                   *)
RECURSIVE secondHopFlatMap(_, _, _, _)
secondHopFlatMap(secondHopIds, subgraphPoolsSorted, poolAddressesSoFar, topNSecondHop) ==
  IF secondHopIds = << >> THEN << >>
  ELSE
    LET secondHopId == Head(secondHopIds)
        touching(subgraphPool) ==
          /\ subgraphPool.id \notin poolAddressesSoFar
          /\ (subgraphPool.token0.id = secondHopId \/ subgraphPool.token1.id = secondHopId)
    IN slice(SelectSeq(subgraphPoolsSorted, touching), topNSecondHop)
       \o secondHopFlatMap(Tail(secondHopIds), subgraphPoolsSorted, poolAddressesSoFar,
                           topNSecondHop)

secondHops(secondHopIds, subgraphPoolsSorted, poolAddressesSoFar, topNSecondHop) ==
  slice(sortByTVL(uniqBy(secondHopFlatMap(secondHopIds, subgraphPoolsSorted,
                                          poolAddressesSoFar, topNSecondHop), << >>),
                  << >>),
        topNSecondHop)

(* A variant that seeds the slice from topByTVLUsingTokenOut.               *)
tokenOutSecondHopSeed_usingTokenOut(usingTokenIn, usingTokenOut) == usingTokenOut

(* The pools whose other tokens topByTVLUsingTokenOutSecondHops starts      *)
(* from: _(topByTVLUsingTokenIn).                                          *)
tokenOutSecondHopSeed(usingTokenIn, usingTokenOut) == usingTokenIn

(* getPoolsToConsider: the seven slices, in the order they are extracted.  *)
getPoolsToConsider(tIn, tOut, routeType, config, subgraphAllPools, listed) ==
  LET tokenInAddress == tIn
      tokenOutAddress == tOut
      inTokenList(pool) ==
        /\ tokenExists(listed, pool.token0.symbol)
        /\ tokenExists(listed, pool.token1.symbol)
      subgraphPoolsSorted == sortByTVL(SelectSeq(subgraphAllPools, inTokenList), << >>)
      soFar0 == {}
      isDirect(subgraphPool) ==
        /\ subgraphPool.id \notin soFar0
        /\ \/ (subgraphPool.token0.id = tokenInAddress
               /\ subgraphPool.token1.id = tokenOutAddress)
           \/ (subgraphPool.token1.id = tokenInAddress
               /\ subgraphPool.token0.id = tokenOutAddress)
      top2DirectSwapPool == slice(SelectSeq(subgraphPoolsSorted, isDirect), 2)
      soFar1 == addToAddressSet(soFar0, top2DirectSwapPool)
      isEthQuote(subgraphPool) ==
        IF routeType = EXACT_INPUT
        THEN \/ (subgraphPool.token0.id = wethAddress
                 /\ subgraphPool.token1.id = tokenOutAddress)
             \/ (subgraphPool.token1.id = wethAddress
                 /\ subgraphPool.token0.id = tokenOutAddress)
        ELSE \/ (subgraphPool.token0.symbol = wethAddress
                 /\ subgraphPool.token1.symbol = symbolOf(tIn))
             \/ (subgraphPool.token1.symbol = wethAddress
                 /\ subgraphPool.token0.symbol = symbolOf(tIn))
      top2EthQuoteTokenPool == slice(SelectSeq(subgraphPoolsSorted, isEthQuote), 2)
      soFar2 == addToAddressSet(soFar1, top2EthQuoteTokenPool)
      topByTVL == slice(subgraphPoolsSorted, config.topN)
      soFar3 == addToAddressSet(soFar2, topByTVL)
      usesTokenIn(subgraphPool) ==
        /\ subgraphPool.id \notin soFar3
        /\ (subgraphPool.token0.id = tokenInAddress
            \/ subgraphPool.token1.id = tokenInAddress)
      topByTVLUsingTokenIn ==
        slice(SelectSeq(subgraphPoolsSorted, usesTokenIn), config.topNTokenInOut)
      soFar4 == addToAddressSet(soFar3, topByTVLUsingTokenIn)
      usesTokenOut(subgraphPool) ==
        /\ subgraphPool.id \notin soFar4
        /\ (subgraphPool.token0.id = tokenOutAddress
            \/ subgraphPool.token1.id = tokenOutAddress)
      topByTVLUsingTokenOut ==
        slice(SelectSeq(subgraphPoolsSorted, usesTokenOut), config.topNTokenInOut)
      soFar5 == addToAddressSet(soFar4, topByTVLUsingTokenOut)
      tokenInSecondHopIds ==
        [k \in DOMAIN topByTVLUsingTokenIn |->
           IF tokenInAddress = topByTVLUsingTokenIn[k].token0.id
           THEN topByTVLUsingTokenIn[k].token1.id
           ELSE topByTVLUsingTokenIn[k].token0.id]
      topByTVLUsingTokenInSecondHops ==
        secondHops(tokenInSecondHopIds, subgraphPoolsSorted, soFar5, config.topNSecondHop)
      soFar6 == addToAddressSet(soFar5, topByTVLUsingTokenInSecondHops)
      seed == tokenOutSecondHopSeed(topByTVLUsingTokenIn, topByTVLUsingTokenOut)
      tokenOutSecondHopIds ==
        [k \in DOMAIN seed |->
           IF tokenOutAddress = seed[k].token0.id
           THEN seed[k].token1.id
           ELSE seed[k].token0.id]
      topByTVLUsingTokenOutSecondHops ==
        secondHops(tokenOutSecondHopIds, subgraphPoolsSorted, soFar6, config.topNSecondHop)
  IN [top2DirectSwapPool |-> top2DirectSwapPool,
      top2EthQuoteTokenPool |-> top2EthQuoteTokenPool,
      topByTVL |-> topByTVL,
      topByTVLUsingTokenIn |-> topByTVLUsingTokenIn,
      topByTVLUsingTokenOut |-> topByTVLUsingTokenOut,
      topByTVLUsingTokenInSecondHops |-> topByTVLUsingTokenInSecondHops,
      topByTVLUsingTokenOutSecondHops |-> topByTVLUsingTokenOutSecondHops]

(* The candidate set: the seven slices one after the other, one entry per  *)
(* pool id.                                                                *)
subgraphPoolsOf(selection) ==
  uniqBy(selection.top2DirectSwapPool \o selection.top2EthQuoteTokenPool
           \o selection.topByTVL \o selection.topByTVLUsingTokenIn
           \o selection.topByTVLUsingTokenOut
           \o selection.topByTVLUsingTokenInSecondHops
           \o selection.topByTVLUsingTokenOutSecondHops,
         << >>)

(* tokenProvider.getToken(chainId, symbol)                                 *)
getToken(symbol) == 0 - symbol

(* poolAccessor.getAllPools(): the pool of each token pair and fee of the   *)
(* candidate set.                                                          *)
getAllPools(subgraphPools) ==
  [k \in DOMAIN subgraphPools |->
     Pool(getToken(subgraphPools[k].token0.symbol),
          getToken(subgraphPools[k].token1.symbol),
          subgraphPools[k].feeTier)]

(* The routeType routeExactIn and routeExactOut hand to getPoolsToConsider: *)
(* both pass TradeType.EXACT_INPUT.                                         *)
routeTypeOf(tt) == IF tt = EXACT_INPUT THEN EXACT_INPUT ELSE EXACT_INPUT

(***************************************************************************)
(* The multicall provider (UniswapMulticallProvider).  Return data is a    *)
(* sequence of bytes; the provider sees it as the hex string "0x..." with  *)
(* two characters per byte.  A returned value is one big-endian word of    *)
(* two bytes.                                                              *)
(***************************************************************************)
encodeFunctionResult(value) == << value \div 256, value % 256 >>

(* contractInterface.decodeFunctionResult: Some(value), or Absent when the *)
(* data is not one word (the call throws).                                 *)
decodeFunctionResult(returnData) ==
  IF Len(returnData) = 2 THEN Some(returnData[1] * 256 + returnData[2]) ELSE Absent

(* A variant that counts bytes where the code counts hex characters.       *)
hexLength_bytes(returnData) == Len(returnData)

(* returnData.length: the length of the hex string.                        *)
hexLength(returnData) == 2 + 2 * Len(returnData)

(* if (!success || returnData.length <= 2)                                 *)
isInvalidResult(aggregateResult) ==
  ~aggregateResult.success \/ hexLength(aggregateResult.returnData) <= 2

(* The loop over aggregateResults from index i on: the results pushed, the *)
(* gas of the successful calls, and whether a decode has thrown.           *)
RECURSIVE collectResults(_, _, _)
collectResults(aggregate, i, acc) ==
  IF acc.threw \/ i > Len(aggregate) THEN acc
  ELSE
    LET entry == aggregate[i]
        decoded == decodeFunctionResult(entry.returnData)
    IN IF isInvalidResult(entry)
       THEN collectResults(aggregate, i + 1,
              [acc EXCEPT !.results =
                 Append(@, [success |-> FALSE, returnData |-> entry.returnData])])
       ELSE IF decoded = Absent
       THEN [acc EXCEPT !.threw = TRUE]
       ELSE collectResults(aggregate, i + 1,
              [acc EXCEPT !.results = Append(@, [success |-> TRUE, result |-> decoded[1]]),
                          !.gasUsedForSuccess = Append(@, entry.gasUsed)])

(* stats.percentile(gasUsedForSuccess, 99): a percentile above 1 is taken  *)
(* as 1, which is the largest value; Absent (NaN) for an empty list.       *)
percentile(values, ptile) ==
  IF values = << >> THEN Absent
  ELSE Some(CHOOSE v \in { values[k] : k \in DOMAIN values } :
              \A k \in DOMAIN values : values[k] <= v)

(***************************************************************************)
(* The request: routeExactIn / routeExactOut from route enumeration on.    *)
(***************************************************************************)
DefaultMaxSwapsPerPath == 3

(* The distributionPercent values requests are made with; 40 does not     *)
(* divide 100 (the percents are 40 and 80).                                *)
DistributionPercents == {25, 50, 100, 40}

TradeAmounts == {8}

(* Candidate pool lists of the requests from token 1 to token 2: three     *)
(* pool-disjoint routes; a direct route and two routes sharing a pool; two *)
(* routes sharing their first pool; two direct pools; one direct pool; no  *)
(* route.                                                                  *)
CandidatePoolLists ==
  { << Pool(1, 2, 500), Pool(1, 2, 3000), Pool(1, 3, 500), Pool(3, 2, 500) >>,
    << Pool(1, 3, 500), Pool(3, 2, 500), Pool(3, 2, 3000), Pool(1, 2, 500) >>,
    << Pool(1, 3, 500), Pool(3, 2, 500), Pool(3, 2, 3000) >>,
    << Pool(1, 2, 500), Pool(1, 2, 3000) >>,
    << Pool(1, 2, 500) >>,
    << Pool(1, 3, 500) >> }

(* Sequences of at most n distinct pools.                                  *)
PoolLists(n) ==
  UNION { { l \in [1..k -> AllPools] : \A x, y \in 1..k : x # y => l[x] # l[y] } :
            k \in 0..n }

Pending ==
  /\ routes = << >>
  /\ percents = << >>
  /\ amounts = << >>
  /\ routesWithQuotes = << >>
  /\ percentToQuotes = << >>
  /\ bestQuote = 0
  /\ bestSwap = << >>
  /\ splits = 0
  /\ outcome = "pending"
  /\ error = ""
  /\ swapRoute = << >>
  /\ allPools = << >>
  /\ tokenList = {}
  /\ poolsBySelection = << >>
  /\ calls = << >>
  /\ aggregateResults = << >>
  /\ multicallResult = << >>
  /\ secondRun = << >>
  /\ gasPriceFetch = "pending"

Init ==
  /\ pc = "getGasPrice"
  /\ tradeType \in TradeTypes
  /\ routingConfig \in [maxSwapsPerPath : {DefaultMaxSwapsPerPath},
                        maxSplits : 1..MaxSplitsCfg,
                        distributionPercent : DistributionPercents]
  /\ tokenIn = 1
  /\ tokenOut = 2
  /\ pools \in CandidatePoolLists
  /\ amount \in { Fraction(a, 1) : a \in TradeAmounts }
  /\ gasPriceWei = 0
  /\ arraySort \in ArraySorts
  /\ Pending

InitRoutes ==
  /\ pc = "computeAllRoutes"
  /\ tradeType = EXACT_INPUT
  /\ routingConfig \in [maxSwapsPerPath : 1..MaxHopsBound,
                        maxSplits : {1},
                        distributionPercent : {100}]
  /\ tokenIn \in Tokens
  /\ tokenOut \in Tokens
  /\ pools \in PoolLists(MaxPools)
  /\ amount = Fraction(1, 1)
  /\ gasPriceWei = 0
  /\ arraySort = "insertionOrder"
  /\ Pending

(* A variant in which the request goes on with the amount distribution.    *)
awaitSettled_skipsEnumeration(settled, continuation) ==
  IF settled = "rejected" THEN "failed" ELSE "getAmountDistribution"

(* A variant in which a rejected fetch does not end the request.           *)
awaitSettled_swallows(settled, continuation) == continuation

(* await: where the request goes on once the promise has settled.  A       *)
(* rejection is not caught: it rejects the request.                        *)
awaitSettled(settled, continuation) ==
  IF settled = "rejected" THEN "failed" ELSE continuation

(* const { gasPriceWei } = await this.gasPriceProvider.getGasPrice()        *)
GetGasPrice ==
  /\ pc = "getGasPrice"
  /\ \E settled \in {"fulfilled", "rejected"}, price \in 0..MaxGasPrice :
       /\ gasPriceFetch' = settled
       /\ gasPriceWei' = IF settled = "fulfilled" THEN price ELSE gasPriceWei
       /\ pc' = awaitSettled(settled, "computeAllRoutes")
  /\ outcome' = IF pc' = "failed" THEN "error" ELSE outcome
  /\ error' = IF pc' = "failed" THEN "getGasPrice rejected" ELSE error
  /\ UNCHANGED << selectionVars, multicallVars, secondRun, arraySort >>
  /\ UNCHANGED << tradeType, routingConfig, tokenIn, tokenOut, pools, amount,
                  routes, percents, amounts, routesWithQuotes, percentToQuotes,
                  bestQuote, bestSwap, splits, swapRoute >>

(* const routes = this.computeAllRoutes(tokenIn, tokenOut, pools, maxSwapsPerPath) *)
ComputeAllRoutes ==
  /\ pc = "computeAllRoutes"
  /\ routes' = computeAllRoutes(tokenIn, tokenOut, pools, routingConfig.maxSwapsPerPath)
  /\ pc' = "getAmountDistribution"
  /\ UNCHANGED << selectionVars, multicallVars, secondRun, gasPriceFetch, arraySort >>
  /\ UNCHANGED << tradeType, routingConfig, tokenIn, tokenOut, pools, amount,
                  gasPriceWei, percents, amounts, routesWithQuotes, percentToQuotes,
                  bestQuote, bestSwap, splits, outcome, error, swapRoute >>

(* const [percents, amounts] = this.getAmountDistribution(amount, routingConfig) *)
GetAmountDistribution ==
  /\ pc = "getAmountDistribution"
  /\ LET d == getAmountDistribution(amount, routingConfig)
     IN /\ percents' = d[1]
        /\ amounts' = d[2]
  /\ pc' = "getQuotes"
  /\ UNCHANGED << selectionVars, multicallVars, secondRun, gasPriceFetch, arraySort >>
  /\ UNCHANGED << tradeType, routingConfig, tokenIn, tokenOut, pools, amount,
                  gasPriceWei, routes, routesWithQuotes, percentToQuotes,
                  bestQuote, bestSwap, splits, outcome, error, swapRoute >>

(* The quote provider's response: one AmountQuote per route and amount, in *)
(* the caller's order; each route is priced at some rate and at most       *)
(* MaxFailed slots are failed quotes.                                      *)
GetQuotes ==
  /\ pc = "getQuotes"
  /\ \E rate \in [DOMAIN routes -> 1..MaxRate] :
     \E failed \in { f \in SUBSET ((DOMAIN routes) \X (DOMAIN amounts)) :
                       Cardinality(f) <= MaxFailed } :
       routesWithQuotes' =
         [r \in DOMAIN routes |->
            << routes[r],
               [i \in DOMAIN amounts |->
                  IF << r, i >> \in failed THEN FailedQuote(amounts[i])
                  ELSE AmountQuote(amounts[i],
                                   Some(quoterAnswer(tradeType, rate[r], i)),
                                   Some(TRUE), Some(TRUE),
                                   Some(quoterGasEstimate(routes[r])))] >>]
  /\ pc' = "getBestSwapRoute"
  /\ UNCHANGED << selectionVars, multicallVars, secondRun, gasPriceFetch, arraySort >>
  /\ UNCHANGED << tradeType, routingConfig, tokenIn, tokenOut, pools, amount,
                  gasPriceWei, routes, percents, amounts, percentToQuotes,
                  bestQuote, bestSwap, splits, outcome, error, swapRoute >>

(* getBestSwapRoute: drop the failed quotes, bucket the valid ones.        *)
BuildRouteWithValidQuotes ==
  /\ pc = "getBestSwapRoute"
  /\ percentToQuotes' = buildPercentToQuotes(routesWithQuotes, percents, gasPriceWei,
                                             tradeType, 1, 1, << >>)
  /\ pc' = "sortQuotes"
  /\ UNCHANGED << selectionVars, multicallVars, secondRun, gasPriceFetch, arraySort >>
  /\ UNCHANGED << tradeType, routingConfig, tokenIn, tokenOut, pools, amount,
                  gasPriceWei, routes, percents, amounts, routesWithQuotes,
                  bestQuote, bestSwap, splits, outcome, error, swapRoute >>

(* getBestSwapRouteBy: percentToSortedQuotes (the buckets, sorted in place) *)
SortQuotes ==
  /\ pc = "sortQuotes"
  /\ percentToQuotes' = percentToSortedQuotesOf(tradeType, percentToQuotes)
  /\ pc' = "baseline"
  /\ UNCHANGED << selectionVars, multicallVars, secondRun, gasPriceFetch, arraySort >>
  /\ UNCHANGED << tradeType, routingConfig, tokenIn, tokenOut, pools, amount,
                  gasPriceWei, routes, percents, amounts, routesWithQuotes,
                  bestQuote, bestSwap, splits, outcome, error, swapRoute >>

(* if (!percentToSortedQuotes[100]) return undefined: the request is null  *)
NoBaseline ==
  /\ pc = "baseline"
  /\ ~hasBaseline(percentToQuotes)
  /\ outcome' = "null"
  /\ pc' = "done"
  /\ UNCHANGED << selectionVars, multicallVars, secondRun, gasPriceFetch, arraySort >>
  /\ UNCHANGED << tradeType, routingConfig, tokenIn, tokenOut, pools, amount,
                  gasPriceWei, routes, percents, amounts, routesWithQuotes,
                  percentToQuotes, bestQuote, bestSwap, splits, error, swapRoute >>

(* bestQuote, bestSwap start as the best quote of the 100% bucket          *)
Baseline ==
  /\ pc = "baseline"
  /\ hasBaseline(percentToQuotes)
  /\ bestQuote' = by(percentToQuotes[100][1])
  /\ bestSwap' = << percentToQuotes[100][1] >>
  /\ splits' = 2
  /\ pc' = "splits"
  /\ UNCHANGED << selectionVars, multicallVars, secondRun, gasPriceFetch, arraySort >>
  /\ UNCHANGED << tradeType, routingConfig, tokenIn, tokenOut, pools, amount,
                  gasPriceWei, routes, percents, amounts, routesWithQuotes,
                  percentToQuotes, outcome, error, swapRoute >>

(* What a pass of the while loop leaves: the search state, or a TypeError. *)
AfterSearch(st) ==
  IF st.threw
  THEN /\ outcome' = "error"
       /\ error' = "TypeError"
       /\ pc' = "done"
       /\ UNCHANGED << bestQuote, bestSwap, splits >>
  ELSE /\ bestQuote' = st.bestQuote
       /\ bestSwap' = st.bestSwap
       /\ splits' = splits + 1
       /\ pc' = "splits"
       /\ UNCHANGED << outcome, error >>

(* The pass with splits == 2.                                              *)
Split2 ==
  /\ pc = "splits"
  /\ loopContinues(splits, routingConfig.maxSplits)
  /\ splits = 2
  /\ AfterSearch(split2Loop(tradeType, percentToQuotes, percents, 1,
                            SearchState(bestQuote, bestSwap, FALSE)))
  /\ UNCHANGED << selectionVars, multicallVars, secondRun, gasPriceFetch, arraySort >>
  /\ UNCHANGED << tradeType, routingConfig, tokenIn, tokenOut, pools, amount,
                  gasPriceWei, routes, percents, amounts, routesWithQuotes,
                  percentToQuotes, swapRoute >>

(* The pass with splits == 3: the search runs only from a 2-split.         *)
Split3 ==
  /\ pc = "splits"
  /\ loopContinues(splits, routingConfig.maxSplits)
  /\ splits = 3
  /\ AfterSearch(IF searchesThreeSplits(bestSwap)
                 THEN split3Loop(tradeType, percentToQuotes, percents, 1,
                                 SearchState(bestQuote, bestSwap, FALSE))
                 ELSE SearchState(bestQuote, bestSwap, FALSE))
  /\ UNCHANGED << selectionVars, multicallVars, secondRun, gasPriceFetch, arraySort >>
  /\ UNCHANGED << tradeType, routingConfig, tokenIn, tokenOut, pools, amount,
                  gasPriceWei, routes, percents, amounts, routesWithQuotes,
                  percentToQuotes, swapRoute >>

(* The pass with splits == 4: throw new Error('Four splits is not supported') *)
Split4 ==
  /\ pc = "splits"
  /\ loopContinues(splits, routingConfig.maxSplits)
  /\ splits = 4
  /\ outcome' = "error"
  /\ error' = "Four splits is not supported"
  /\ pc' = "done"
  /\ UNCHANGED << selectionVars, multicallVars, secondRun, gasPriceFetch, arraySort >>
  /\ UNCHANGED << tradeType, routingConfig, tokenIn, tokenOut, pools, amount,
                  gasPriceWei, routes, percents, amounts, routesWithQuotes,
                  percentToQuotes, bestQuote, bestSwap, splits, swapRoute >>

(* After the loop: the plan of the best swap is returned.                  *)
Assemble ==
  /\ pc = "splits"
  /\ ~loopContinues(splits, routingConfig.maxSplits)
  /\ swapRoute' = assemblePlan(bestSwap)
  /\ outcome' = "plan"
  /\ pc' = "done"
  /\ UNCHANGED << selectionVars, multicallVars, secondRun, gasPriceFetch, arraySort >>
  /\ UNCHANGED << tradeType, routingConfig, tokenIn, tokenOut, pools, amount,
                  gasPriceWei, routes, percents, amounts, routesWithQuotes,
                  percentToQuotes, bestQuote, bestSwap, splits, error >>

(* The optimiser run a second time on the request's percents and           *)
(* routesWithQuotes.                                                       *)
RunAgain ==
  /\ pc = "done"
  /\ secondRun' = getBestSwapRoute(percents, routesWithQuotes, tradeType, gasPriceWei,
                                   routingConfig)
  /\ pc' = "ranAgain"
  /\ UNCHANGED << selectionVars, multicallVars, gasPriceFetch, arraySort >>
  /\ UNCHANGED << tradeType, routingConfig, tokenIn, tokenOut, pools, amount,
                  gasPriceWei, routes, percents, amounts, routesWithQuotes,
                  percentToQuotes, bestQuote, bestSwap, splits, outcome, error,
                  swapRoute >>

Next ==
  \/ GetGasPrice
  \/ ComputeAllRoutes
  \/ GetAmountDistribution
  \/ GetQuotes
  \/ BuildRouteWithValidQuotes
  \/ SortQuotes
  \/ NoBaseline
  \/ Baseline
  \/ Split2
  \/ Split3
  \/ Split4
  \/ Assemble
  \/ RunAgain

Spec == Init /\ [][Next]_vars

(* getAmountDistribution on its own: every step that divides 100, two     *)
(* that do not, and every amount up to MaxAmount over two denominators.    *)
DistributionSteps == {1, 2, 4, 5, 10, 20, 25, 50, 100, 30, 40}

AmountDenominators == {1, 3}

InitDistribution ==
  /\ pc = "getAmountDistribution"
  /\ tradeType = EXACT_INPUT
  /\ routingConfig \in [maxSwapsPerPath : {DefaultMaxSwapsPerPath},
                        maxSplits : {1},
                        distributionPercent : DistributionSteps]
  /\ tokenIn = 1
  /\ tokenOut = 2
  /\ pools = << >>
  /\ amount \in { Fraction(a, b) : a \in 0..MaxAmount, b \in AmountDenominators }
  /\ gasPriceWei = 0
  /\ arraySort = "insertionOrder"
  /\ Pending

NextDistribution == GetAmountDistribution

SpecDistribution == InitDistribution /\ [][NextDistribution]_vars

(* The request with quotes of any shape: each route answers one of the     *)
(* QuoteCurves (the quote at 25, 50, 75 and 100 percent: a deep pool, a    *)
(* pool that saturates, a pool with a fixed cost), and at most one slot is *)
(* a failed quote: one that misses every field, or one of the four.        *)
QuoteCurves == { << 1, 2, 3, 4 >>, << 2, 2, 2, 2 >>, << 2, 3, 4, 5 >> }

GatePoolLists ==
  { << Pool(1, 2, 500), Pool(1, 2, 3000), Pool(1, 3, 500), Pool(3, 2, 500) >>,
    << Pool(1, 2, 500) >> }

InitGate ==
  /\ pc = "getGasPrice"
  /\ tradeType \in TradeTypes
  /\ routingConfig \in [maxSwapsPerPath : {DefaultMaxSwapsPerPath},
                        maxSplits : 1..MaxSplitsCfg,
                        distributionPercent : {25}]
  /\ tokenIn = 1
  /\ tokenOut = 2
  /\ pools \in GatePoolLists
  /\ amount \in { Fraction(a, 1) : a \in TradeAmounts }
  /\ gasPriceWei = 0
  /\ arraySort \in ArraySorts
  /\ Pending

MissingFields ==
  {"all", "quote", "sqrtPriceX96AfterList", "initializedTicksCrossedList", "gasEstimate"}

(* The AmountQuote without the given field, or without any.                *)
without(amountQuote, missing) ==
  IF missing = "all" THEN FailedQuote(amountQuote.amount)
  ELSE [amountQuote EXCEPT ![missing] = Absent]

GetCurveQuotes ==
  /\ pc = "getQuotes"
  /\ \E curve \in [DOMAIN routes -> QuoteCurves] :
     \E failed \in { f \in SUBSET ((DOMAIN routes) \X (DOMAIN amounts)) :
                       Cardinality(f) <= 1 } :
     \E missing \in MissingFields :
       /\ failed = {} => missing = "all"
       /\ routesWithQuotes' =
            [r \in DOMAIN routes |->
               << routes[r],
                  [i \in DOMAIN amounts |->
                     LET answer == AmountQuote(amounts[i], Some(curve[r][i]), Some(TRUE),
                                               Some(TRUE),
                                               Some(quoterGasEstimate(routes[r])))
                     IN IF << r, i >> \in failed THEN without(answer, missing)
                        ELSE answer] >>]
  /\ pc' = "getBestSwapRoute"
  /\ UNCHANGED << selectionVars, multicallVars, secondRun, gasPriceFetch, arraySort >>
  /\ UNCHANGED << tradeType, routingConfig, tokenIn, tokenOut, pools, amount,
                  gasPriceWei, routes, percents, amounts, percentToQuotes,
                  bestQuote, bestSwap, splits, outcome, error, swapRoute >>

NextGate ==
  \/ GetGasPrice
  \/ ComputeAllRoutes
  \/ GetAmountDistribution
  \/ GetCurveQuotes
  \/ BuildRouteWithValidQuotes
  \/ SortQuotes
  \/ NoBaseline
  \/ Baseline
  \/ Split2
  \/ Split3
  \/ Split4
  \/ Assemble
  \/ RunAgain

SpecGate == InitGate /\ [][NextGate]_vars


(* getPoolsToConsider on its own: the subgraph returns up to               *)
(* MaxSubgraphPools distinct pools in any order, each with a TVL, or one   *)
(* pool more, all of one TVL (the order of the list is then the ranking);  *)
(* the token list holds every token, or every token but the last.          *)
DistinctPoolLists(n) ==
  { x \in [1..n -> AllPools] : \A a, b \in 1..n : a # b => x[a] # x[b] }

SubgraphPoolLists ==
  UNION { { [k \in 1..n |-> SubgraphPool(l[k], tvl[k])] :
              l \in DistinctPoolLists(n), tvl \in [1..n -> 1..MaxTVL] } :
          n \in 0..MaxSubgraphPools }
  \cup { [k \in 1..(MaxSubgraphPools + 1) |-> SubgraphPool(l[k], MaxTVL)] :
           l \in DistinctPoolLists(MaxSubgraphPools + 1) }

SelectionSizes == {0, 1}

InitPools ==
  /\ pc = "getPoolsToConsider"
  /\ tradeType \in TradeTypes
  /\ routingConfig \in [topN : SelectionSizes, topNTokenInOut : SelectionSizes,
                        topNSecondHop : SelectionSizes,
                        maxSwapsPerPath : {DefaultMaxSwapsPerPath},
                        maxSplits : {1}, distributionPercent : {100}]
  /\ tokenIn \in Tokens
  /\ tokenOut \in Tokens
  /\ pools = << >>
  /\ amount = Fraction(1, 1)
  /\ gasPriceWei = 0
  /\ routes = << >>
  /\ percents = << >>
  /\ amounts = << >>
  /\ routesWithQuotes = << >>
  /\ percentToQuotes = << >>
  /\ bestQuote = 0
  /\ bestSwap = << >>
  /\ splits = 0
  /\ outcome = "pending"
  /\ error = ""
  /\ swapRoute = << >>
  /\ allPools \in SubgraphPoolLists
  /\ tokenList \in {Tokens, Tokens \ {NumTokens}}
  /\ poolsBySelection = << >>
  /\ calls = << >>
  /\ aggregateResults = << >>
  /\ multicallResult = << >>
  /\ secondRun = << >>
  /\ gasPriceFetch = "pending"
  /\ arraySort = "insertionOrder"

(* const { poolAccessor, poolsBySelection } = await this.getPoolsToConsider(...) *)
(* const pools = poolAccessor.getAllPools()                                 *)
GetPoolsToConsider ==
  /\ pc = "getPoolsToConsider"
  /\ poolsBySelection' = getPoolsToConsider(tokenIn, tokenOut, routeTypeOf(tradeType),
                                            routingConfig, allPools, tokenList)
  /\ pools' = getAllPools(subgraphPoolsOf(poolsBySelection'))
  /\ pc' = "getGasPrice"
  /\ UNCHANGED << allPools, tokenList, multicallVars, secondRun, gasPriceFetch, arraySort >>
  /\ UNCHANGED << tradeType, routingConfig, tokenIn, tokenOut, amount,
                  gasPriceWei, routes, percents, amounts, routesWithQuotes,
                  percentToQuotes, bestQuote, bestSwap, splits, outcome, error,
                  swapRoute >>

NextPools == GetPoolsToConsider

SpecPools == InitPools /\ [][NextPools]_vars

(* routeExactIn and routeExactOut from their first statement: a request    *)
(* from token 1 to token 2 over a subgraph of two direct pools and a       *)
(* two-pool detour, or of one direct pool.                                 *)
RequestSubgraphs ==
  { << SubgraphPool(Pool(1, 2, 500), 2), SubgraphPool(Pool(1, 3, 500), 2),
       SubgraphPool(Pool(3, 2, 500), 1), SubgraphPool(Pool(1, 2, 3000), 1) >>,
    << SubgraphPool(Pool(1, 2, 500), 1) >> }

InitRequest ==
  /\ pc = "getPoolsToConsider"
  /\ tradeType \in TradeTypes
  /\ routingConfig \in [topN : SelectionSizes, topNTokenInOut : SelectionSizes,
                        topNSecondHop : SelectionSizes,
                        maxSwapsPerPath : {DefaultMaxSwapsPerPath},
                        maxSplits : 1..MaxSplitsCfg, distributionPercent : {50}]
  /\ tokenIn = 1
  /\ tokenOut = 2
  /\ pools = << >>
  /\ amount \in { Fraction(a, 1) : a \in TradeAmounts }
  /\ gasPriceWei = 0
  /\ routes = << >>
  /\ percents = << >>
  /\ amounts = << >>
  /\ routesWithQuotes = << >>
  /\ percentToQuotes = << >>
  /\ bestQuote = 0
  /\ bestSwap = << >>
  /\ splits = 0
  /\ outcome = "pending"
  /\ error = ""
  /\ swapRoute = << >>
  /\ allPools \in RequestSubgraphs
  /\ tokenList = Tokens
  /\ poolsBySelection = << >>
  /\ calls = << >>
  /\ aggregateResults = << >>
  /\ multicallResult = << >>
  /\ secondRun = << >>
  /\ gasPriceFetch = "pending"
  /\ arraySort = "insertionOrder"

NextRequest ==
  \/ GetPoolsToConsider
  \/ GetGasPrice
  \/ ComputeAllRoutes
  \/ GetAmountDistribution
  \/ GetQuotes
  \/ BuildRouteWithValidQuotes
  \/ SortQuotes
  \/ NoBaseline
  \/ Baseline
  \/ Split2
  \/ Split3
  \/ Split4
  \/ Assemble

SpecRequest == InitRequest /\ [][NextRequest]_vars

(* The multicall provider on its own.  The aggregator contract answers one *)
(* entry per call, in order: a success flag, return data and gas used.  A  *)
(* successful call returns nothing ("0x") or an encoded value; a failed    *)
(* call returns nothing, a value or revert data of any length.             *)
ReturnValues == {1, 300}

BlockNumbers == {12}

RevertData == << 8 >>

AggregateResults(n) ==
  [1..n -> { [success |-> ok, returnData |-> data, gasUsed |-> gas] :
               ok \in BOOLEAN,
               data \in {<< >>, RevertData} \cup { encodeFunctionResult(v) : v \in ReturnValues },
               gas \in 1..MaxGasUsed }
           \ { [success |-> TRUE, returnData |-> RevertData, gasUsed |-> gas] :
                 gas \in 1..MaxGasUsed }]

InitMulticall ==
  /\ pc = "multicall"
  /\ tradeType = EXACT_INPUT
  /\ routingConfig = [maxSwapsPerPath |-> DefaultMaxSwapsPerPath, maxSplits |-> 1,
                      distributionPercent |-> 100]
  /\ tokenIn = 1
  /\ tokenOut = 2
  /\ pools = << >>
  /\ amount = Fraction(1, 1)
  /\ gasPriceWei = 0
  /\ arraySort = "insertionOrder"
  /\ Pending

(* What the provider returns for an answer of the aggregator contract.     *)
MulticallReturn(aggregate, blockNumber, withGasStatistics) ==
  LET collected == collectResults(aggregate, 1,
                     [results |-> << >>, gasUsedForSuccess |-> << >>, threw |-> FALSE])
  IN IF collected.threw
     THEN [threw |-> TRUE]
     ELSE IF withGasStatistics
     THEN [threw |-> FALSE, blockNumber |-> blockNumber, results |-> collected.results,
           approxGasUsedPerSuccessCall |-> percentile(collected.gasUsedForSuccess, 99)]
     ELSE [threw |-> FALSE, blockNumber |-> blockNumber, results |-> collected.results]

(* callSameFunctionOnMultipleContracts: one call per address, all with the *)
(* same call data.                                                         *)
CallSameFunctionOnMultipleContracts ==
  /\ pc = "multicall"
  /\ \E n \in 0..MaxCalls, blockNumber \in BlockNumbers :
     \E aggregate \in AggregateResults(n) :
       /\ calls' = [k \in 1..n |-> [target |-> k, callData |-> << >>]]
       /\ aggregateResults' = aggregate
       /\ multicallResult' = MulticallReturn(aggregate, blockNumber, FALSE)
  /\ pc' = "multicallDone"
  /\ UNCHANGED << selectionVars, secondRun, gasPriceFetch, arraySort >>
  /\ UNCHANGED << tradeType, routingConfig, tokenIn, tokenOut, pools, amount,
                  gasPriceWei, routes, percents, amounts, routesWithQuotes,
                  percentToQuotes, bestQuote, bestSwap, splits, outcome, error,
                  swapRoute >>

(* callSameFunctionOnContractWithMultipleParams: one call per parameter    *)
(* set, all to the same address.                                           *)
CallSameFunctionOnContractWithMultipleParams ==
  /\ pc = "multicall"
  /\ \E n \in 0..MaxCalls, blockNumber \in BlockNumbers :
     \E aggregate \in AggregateResults(n) :
       /\ calls' = [k \in 1..n |-> [target |-> 0, callData |-> << k >>]]
       /\ aggregateResults' = aggregate
       /\ multicallResult' = MulticallReturn(aggregate, blockNumber, TRUE)
  /\ pc' = "multicallDone"
  /\ UNCHANGED << selectionVars, secondRun, gasPriceFetch, arraySort >>
  /\ UNCHANGED << tradeType, routingConfig, tokenIn, tokenOut, pools, amount,
                  gasPriceWei, routes, percents, amounts, routesWithQuotes,
                  percentToQuotes, bestQuote, bestSwap, splits, outcome, error,
                  swapRoute >>

NextMulticall ==
  \/ CallSameFunctionOnMultipleContracts
  \/ CallSameFunctionOnContractWithMultipleParams

SpecMulticall == InitMulticall /\ [][NextMulticall]_vars

NextRoutes == ComputeAllRoutes

SpecRoutes == InitRoutes /\ [][NextRoutes]_vars

(***************************************************************************)
(* Properties.                                                             *)
(***************************************************************************)
RECURSIVE Total(_)
Total(numbers) ==
  IF numbers = << >> THEN 0 ELSE Head(numbers) + Total(Tail(numbers))

ComponentPools(k) ==
  { getPoolAddress(swapRoute.routeAmounts[k].route.pools[n]) :
      n \in DOMAIN swapRoute.routeAmounts[k].route.pools }

Returned == outcome = "plan"

(* The slots of the response that hold a valid quote at 100%.              *)
Valid100 ==
  { << r, i >> \in (DOMAIN routesWithQuotes) \X (DOMAIN percents) :
      percents[i] = 100 /\ isValidQuote(routesWithQuotes[r][2][i]) }

(* C1: the percentages of a returned plan's routeAmounts sum to 100.       *)
C1_PercentagesSumTo100 ==
  Returned =>
    Total([k \in DOMAIN swapRoute.routeAmounts |-> swapRoute.routeAmounts[k].percentage]) = 100

(* A plan of three components has been returned.                           *)
C1_Witness == Returned /\ Len(swapRoute.routeAmounts) = 3

(* C2: the components of a returned plan with 2 or 3 components are        *)
(* pairwise pool-disjoint.                                                 *)
C2_PoolDisjoint ==
  Returned =>
    \A k, l \in DOMAIN swapRoute.routeAmounts :
       k # l => ComponentPools(k) \cap ComponentPools(l) = {}

(* A 2-split was returned whose second component is not the best quote of  *)
(* its bucket, at another percent than the first: the better ones re-use a *)
(* pool of the first component.                                            *)
C2_Witness ==
  /\ Returned
  /\ Len(bestSwap) = 2
  /\ bestSwap[1].percent # bestSwap[2].percent
  /\ bestSwap[2] # percentToQuotes[bestSwap[2].percent][1]

(* C3: a returned plan's quote, quoteGasAdjusted and estimatedGasUsed are  *)
(* the sums of its components' values.                                     *)
C3_TotalsAreSums ==
  Returned =>
    LET ra == swapRoute.routeAmounts
    IN /\ swapRoute.quote = Total([k \in DOMAIN ra |-> ra[k].quote])
       /\ swapRoute.quoteGasAdjusted = Total([k \in DOMAIN ra |-> ra[k].quoteGasAdjusted])
       /\ swapRoute.estimatedGasUsed = Total([k \in DOMAIN ra |-> ra[k].estimatedGasUsed])

(* A plan of several components with gas costs has been returned.          *)
C3_Witness ==
  /\ Returned
  /\ Len(swapRoute.routeAmounts) >= 2
  /\ swapRoute.quote # swapRoute.quoteGasAdjusted

(* C4: a returned plan's quoteGasAdjusted is at least as good as the best  *)
(* 100% quote: not smaller for EXACT_INPUT, not larger for EXACT_OUTPUT.   *)
C4_AtLeastBaseline ==
  Returned =>
    LET baseline == percentToQuotes[100][1].quoteAdjustedForGas
    IN IF tradeType = EXACT_INPUT
       THEN swapRoute.quoteGasAdjusted >= baseline
       ELSE swapRoute.quoteGasAdjusted <= baseline

(* A split strictly better than the baseline has been returned.            *)
C4_Witness ==
  /\ Returned
  /\ Len(swapRoute.routeAmounts) >= 2
  /\ swapRoute.quoteGasAdjusted # percentToQuotes[100][1].quoteAdjustedForGas

(* C5: with maxSplits <= 3 the optimiser never raises an error, whatever   *)
(* slots of the response are failed quotes.                                *)
C5_NeverRaises ==
  (routingConfig.maxSplits <= 3 /\ gasPriceFetch # "rejected") => outcome # "error"

(* C6: with maxSplits <= 3 the optimiser returns null exactly when the     *)
(* response holds no valid quote at 100%.                                  *)
C6_NullIffNoBaseline ==
  (pc = "done" /\ routingConfig.maxSplits <= 3) =>
    (outcome = "null" <=> Valid100 = {})

(* Null was returned although two pool-disjoint valid quotes at 50% exist. *)
C6_Witness ==
  /\ pc = "done"
  /\ routingConfig.maxSplits <= 3
  /\ outcome = "null"
  /\ 50 \in DOMAIN percentToQuotes
  /\ \E a, b \in DOMAIN percentToQuotes[50] :
       usedPoolAddresses(<< percentToQuotes[50][a].route >>)
         \cap usedPoolAddresses(<< percentToQuotes[50][b].route >>) = {}

(* C7: with maxSplits >= 4 every request ends in an error, neither a plan  *)
(* nor null.                                                               *)
C7_FourSplitsAlwaysFatal ==
  (pc = "done" /\ routingConfig.maxSplits >= 4) => outcome = "error"

(* C8: a distributionPercent that does not divide 100 ends the request in  *)
(* an error, neither a plan nor null.                                      *)
C8_BadDistributionFatal ==
  (pc = "done" /\ 100 % routingConfig.distributionPercent # 0) => outcome = "error"

(* The tokens a route reaches: tokenIn, then the other token of each pool. *)
RECURSIVE tokenPath(_, _)
tokenPath(routePools, from) ==
  IF routePools = << >> THEN << from >>
  ELSE << from >> \o
       tokenPath(Tail(routePools),
                 IF Head(routePools).token0 = from
                 THEN Head(routePools).token1 ELSE Head(routePools).token0)

Enumerated == pc # "computeAllRoutes"

(* C9: every emitted route has 1..maxHops pools, no pool twice, chains     *)
(* from tokenIn, and its last pool involves tokenOut.                      *)
C9_RoutesWellFormed ==
  Enumerated =>
    \A r \in DOMAIN routes :
      LET rp == routes[r].pools
          path == tokenPath(rp, tokenIn)
      IN /\ Len(rp) >= 1
         /\ Len(rp) <= routingConfig.maxSwapsPerPath
         /\ \A m, n \in DOMAIN rp : m # n => getPoolAddress(rp[m]) # getPoolAddress(rp[n])
         /\ \A n \in DOMAIN rp : involvesToken(rp[n], path[n])
         /\ involvesToken(rp[Len(rp)], tokenOut)
         /\ routes[r].input = tokenIn
         /\ routes[r].output = tokenOut

(* A route of three pools has been emitted.                                *)
C9_Witness ==
  /\ Enumerated
  /\ \E r \in DOMAIN routes : Len(routes[r].pools) = 3

(* C10: any two consecutive pools of an emitted route share exactly one    *)
(* token.                                                                  *)
C10_ConsecutiveShareOneToken ==
  Enumerated =>
    \A r \in DOMAIN routes :
      \A n \in 1..(Len(routes[r].pools) - 1) :
        LET p == routes[r].pools[n]
            q == routes[r].pools[n + 1]
        IN Cardinality({p.token0, p.token1} \cap {q.token0, q.token1}) = 1


(* A sequence of pools that chains from tokenIn to tokenOut and visits no  *)
(* token and no pool twice.                                                *)
IsSimplePath(rp, tIn, tOut) ==
  LET path == tokenPath(rp, tIn)
  IN /\ Len(rp) >= 1
     /\ \A n \in DOMAIN rp : involvesToken(rp[n], path[n])
     /\ path[Len(path)] = tOut
     /\ \A m, n \in DOMAIN path : m # n => path[m] # path[n]
     /\ \A m, n \in DOMAIN rp : m # n => getPoolAddress(rp[m]) # getPoolAddress(rp[n])

(* The sequences of 1..maxHops candidate pools.                            *)
PoolSequences ==
  UNION { { [n \in 1..k |-> pools[s[n]]] : s \in [1..k -> DOMAIN pools] } :
            k \in 1..routingConfig.maxSwapsPerPath }

(* C11: for tokenIn # tokenOut, every simple path of at most maxHops       *)
(* candidate pools from tokenIn to tokenOut is among the emitted routes.   *)
C11_Complete ==
  (Enumerated /\ tokenIn # tokenOut) =>
    \A rp \in PoolSequences :
      IsSimplePath(rp, tokenIn, tokenOut) => \E r \in DOMAIN routes : routes[r].pools = rp

(* A direct route and a simple path of maxHops = 2 pools were both there   *)
(* and emitted.                                                            *)
C11_Witness ==
  /\ Enumerated
  /\ tokenIn # tokenOut
  /\ routingConfig.maxSwapsPerPath = 2
  /\ \E rp, rq \in PoolSequences :
       /\ Len(rp) = 1 /\ Len(rq) = 2
       /\ IsSimplePath(rp, tokenIn, tokenOut)
       /\ IsSimplePath(rq, tokenIn, tokenOut)
       /\ \E r, q \in DOMAIN routes : routes[r].pools = rp /\ routes[q].pools = rq

(* C12: for tokenIn # tokenOut, no emitted route visits a token twice.     *)
C12_RoutesAreSimplePaths ==
  (Enumerated /\ tokenIn # tokenOut) =>
    \A r \in DOMAIN routes :
      LET path == tokenPath(routes[r].pools, tokenIn)
      IN \A m, n \in DOMAIN path : m # n => path[m] # path[n]

(* Two fractions of equal value.                                           *)
equalTo(f, g) == f.numerator * g.denominator = g.numerator * f.denominator

Distributed == pc = "getQuotes"

(* C13: for a distributionPercent that divides 100, getAmountDistribution  *)
(* returns K = 100 / distributionPercent entries, percents[i] = i * step   *)
(* and amounts[i] = amount * i * step / 100 exactly; the percents strictly *)
(* increase, the last percent is 100 and the last amount is the amount.    *)
C13_ExactDistribution ==
  (Distributed /\ 100 % routingConfig.distributionPercent = 0) =>
    LET step == routingConfig.distributionPercent
        K == 100 \div step
    IN /\ Len(percents) = K
       /\ Len(amounts) = K
       /\ \A i \in 1..K :
            /\ percents[i] = i * step
            /\ equalTo(amounts[i],
                       Fraction(amount.numerator * i * step, amount.denominator * 100))
       /\ \A i \in 1..(K - 1) : percents[i] < percents[i + 1]
       /\ percents[K] = 100
       /\ equalTo(amounts[K], amount)

(* An amount that no slice but the last divides evenly was distributed in  *)
(* steps of 5.                                                             *)
C13_Witness ==
  /\ Distributed
  /\ routingConfig.distributionPercent = 5
  /\ amount.numerator = 7
  /\ amount.denominator = 3
  /\ Len(amounts) = 20

Selected == pc = "getGasPrice" /\ poolsBySelection # << >>

SliceNames ==
  { "top2DirectSwapPool", "top2EthQuoteTokenPool", "topByTVL", "topByTVLUsingTokenIn",
    "topByTVLUsingTokenOut", "topByTVLUsingTokenInSecondHops",
    "topByTVLUsingTokenOutSecondHops" }

SliceIds(name) == { poolsBySelection[name][k].id : k \in DOMAIN poolsBySelection[name] }

(* C14: the seven slices of getPoolsToConsider are pairwise disjoint: no   *)
(* pool id appears in two slices.                                          *)
C14_SlicesDisjoint ==
  Selected =>
    \A a, b \in SliceNames : a # b => SliceIds(a) \cap SliceIds(b) = {}

(* The (up to 2) highest-TVL listed pools pairing two tokens, in the       *)
(* subgraph's order among equal TVLs.                                      *)
Top2Pairing(a, b) ==
  LET listed(pool) ==
        /\ tokenExists(tokenList, pool.token0.symbol)
        /\ tokenExists(tokenList, pool.token1.symbol)
      pairing(pool) ==
        \/ (pool.token0.id = a /\ pool.token1.id = b)
        \/ (pool.token1.id = a /\ pool.token0.id = b)
  IN slice(SelectSeq(sortByTVL(SelectSeq(allPools, listed), << >>), pairing), 2)

(* C15: top2EthQuoteTokenPool holds the up to 2 highest-TVL pools pairing  *)
(* the wrapped-native token with the quote token: tokenOut for             *)
(* routeExactIn, tokenIn for routeExactOut.                                *)
C15_EthQuoteTokenPools ==
  Selected =>
    poolsBySelection.top2EthQuoteTokenPool =
      Top2Pairing(wethAddress, IF tradeType = EXACT_INPUT THEN tokenOut ELSE tokenIn)

MulticallDone == pc = "multicallDone"

RanAgain == pc = "ranAgain"

C18_GasPriceFailureIsFatal ==
  gasPriceFetch = "rejected" =>
    /\ outcome = "error"
    /\ swapRoute = << >>
    /\ pc = "failed"

(* The gas-price fetch failed in a request that has a direct pool to quote. *)
C18_Witness ==
  /\ gasPriceFetch = "rejected"
  /\ outcome = "error"
  /\ Len(pools) >= 1
  /\ routes = << >>

(* The routes of the response that have a valid quote at some percent.     *)
ValidRoutes ==
  { r \in DOMAIN routesWithQuotes :
      \E i \in DOMAIN routesWithQuotes[r][2] : isValidQuote(routesWithQuotes[r][2][i]) }

RoutePools(r) == usedPoolAddresses(<< routesWithQuotes[r][1] >>)

EveryTwoValidRoutesOverlap ==
  \A r, q \in ValidRoutes : r # q => RoutePools(r) \cap RoutePools(q) # {}

(* C19: when every two valid routes share a pool (a single valid route     *)
(* included), a plan returned with maxSplits in 1..3 is one route at 100%. *)
C19_SingleRouteWhenAllOverlap ==
  (Returned /\ routingConfig.maxSplits \in 1..3 /\ EveryTwoValidRoutesOverlap) =>
    /\ Len(swapRoute.routeAmounts) = 1
    /\ swapRoute.routeAmounts[1].percentage = 100

(* With maxSplits = 3 and several percents, a plan was returned from two   *)
(* valid routes that share a pool.                                         *)
C19_Witness ==
  /\ Returned
  /\ routingConfig.maxSplits = 3
  /\ Len(percents) >= 2
  /\ Cardinality(ValidRoutes) = 2
  /\ EveryTwoValidRoutesOverlap
  /\ Len(swapRoute.routeAmounts) = 1

Better(a, b) == IF tradeType = EXACT_INPUT THEN a > b ELSE a < b

Disjoint(a, b) ==
  usedPoolAddresses(<< a.route >>) \cap usedPoolAddresses(<< b.route >>) = {}

(* Some two pool-disjoint quotes whose percents add up to 100 sum to       *)
(* strictly better than the baseline.                                      *)
SomeTwoSplitBeatsBaseline ==
  \E p, q \in DOMAIN percentToQuotes :
    /\ p + q = 100
    /\ \E a \in DOMAIN percentToQuotes[p], b \in DOMAIN percentToQuotes[q] :
         /\ Disjoint(percentToQuotes[p][a], percentToQuotes[q][b])
         /\ Better(by(percentToQuotes[p][a]) + by(percentToQuotes[q][b]),
                   by(percentToQuotes[100][1]))

(* Some three pairwise pool-disjoint quotes whose percents add up to 100   *)
(* sum to strictly better than the baseline.                               *)
SomeThreeSplitBeatsBaseline ==
  \E p, q, r \in DOMAIN percentToQuotes :
    /\ p + q + r = 100
    /\ \E a \in DOMAIN percentToQuotes[p], b \in DOMAIN percentToQuotes[q],
          c \in DOMAIN percentToQuotes[r] :
         LET A == percentToQuotes[p][a]
             B == percentToQuotes[q][b]
             C == percentToQuotes[r][c]
         IN /\ Disjoint(A, B) /\ Disjoint(A, C) /\ Disjoint(B, C)
            /\ Better(by(A) + by(B) + by(C), by(percentToQuotes[100][1]))

(* C20: with maxSplits = 3, a pass of the loop with splits = 3 leaves the  *)
(* best swap alone unless it has exactly 2 components; and when no 2-split *)
(* is strictly better than the baseline, the returned plan is the single   *)
(* baseline route.                                                         *)
C20_ThreeSplitGate ==
  /\ (pc = "splits" /\ splits > 3 /\ Len(bestSwap) = 3) => SomeTwoSplitBeatsBaseline
  /\ (Returned /\ routingConfig.maxSplits = 3 /\ ~SomeTwoSplitBeatsBaseline) =>
       swapRoute.routeAmounts = << RouteAmount(percentToQuotes[100][1]) >>

(* The single baseline route was returned with maxSplits = 3 although a    *)
(* pool-disjoint 3-split is strictly better than it.                       *)
C20_Witness ==
  /\ Returned
  /\ routingConfig.maxSplits = 3
  /\ ~SomeTwoSplitBeatsBaseline
  /\ SomeThreeSplitBeatsBaseline
  /\ Len(swapRoute.routeAmounts) = 1

Sorted == pc \in {"baseline", "splits", "done"}

(* The lists of used routes the split loops search with: one route, or two *)
(* routes.                                                                 *)
UsedRouteLists ==
  { << routes[r] >> : r \in DOMAIN routes }
    \cup { << routes[r], routes[q] >> : r, q \in DOMAIN routes }

(* C21: on a sorted bucket, findFirstRouteNotUsingUsedPools returns null   *)
(* exactly when no quote of the bucket is pool-disjoint from the used      *)
(* routes, and otherwise a pool-disjoint quote that no other pool-disjoint *)
(* quote of the bucket beats.                                              *)
C21_FirstFeasibleIsBest ==
  Sorted =>
    \A p \in DOMAIN percentToQuotes : \A usedRoutes \in UsedRouteLists :
      LET bucket == percentToQuotes[p]
          used == UNION { { getPoolAddress(usedRoutes[k].pools[n]) :
                              n \in DOMAIN usedRoutes[k].pools } : k \in DOMAIN usedRoutes }
          feasible == { k \in DOMAIN bucket :
                          \A n \in DOMAIN bucket[k].route.pools :
                            getPoolAddress(bucket[k].route.pools[n]) \notin used }
          found == findFirstRouteNotUsingUsedPools(usedRoutes, bucket)
      IN /\ found = Absent <=> feasible = {}
         /\ found # Absent =>
              /\ \E k \in feasible : bucket[k] = found[1]
              /\ \A k \in feasible :
                   ~Better(bucket[k].quoteAdjustedForGas, found[1].quoteAdjustedForGas)

(* A 2-split was returned whose second component is the third quote of its *)
(* bucket: the two better quotes re-use a pool of the first component, and *)
(* a worse pool-disjoint quote follows it.                                 *)
C21_Witness ==
  /\ Returned
  /\ Len(bestSwap) = 2
  /\ LET bucket == percentToQuotes[bestSwap[2].percent]
     IN /\ Len(bucket) >= 3
        /\ bucket[1] # bestSwap[2]
        /\ \E k \in DOMAIN bucket :
             /\ Disjoint(bucket[k], bestSwap[1])
             /\ Better(bestSwap[2].quoteAdjustedForGas, bucket[k].quoteAdjustedForGas)

(* The buckets as getBestSwapRoute fills them, before the sort.            *)
InsertionOrder ==
  buildPercentToQuotes(routesWithQuotes, percents, gasPriceWei, tradeType, 1, 1, << >>)

(* Where a quote was inserted in its bucket.                               *)
InsertedAt(routeQuote) ==
  CHOOSE k \in DOMAIN InsertionOrder[routeQuote.percent] :
    InsertionOrder[routeQuote.percent][k] = routeQuote

(* C22: after the sort each bucket holds the quotes that were inserted,    *)
(* ordered by quoteAdjustedForGas (non-increasing for EXACT_INPUT,         *)
(* non-decreasing for EXACT_OUTPUT), and quotes with equal                 *)
(* quoteAdjustedForGas in the order they were inserted.                    *)
C22_StableSort ==
  Sorted =>
    \A p \in DOMAIN percentToQuotes :
      LET bucket == percentToQuotes[p]
      IN /\ Len(bucket) = Len(InsertionOrder[p])
         /\ \A k \in DOMAIN InsertionOrder[p] :
              \E l \in DOMAIN bucket : bucket[l] = InsertionOrder[p][k]
         /\ \A k, l \in DOMAIN bucket :
              k < l =>
                /\ ~Better(bucket[l].quoteAdjustedForGas, bucket[k].quoteAdjustedForGas)
                /\ bucket[k].quoteAdjustedForGas = bucket[l].quoteAdjustedForGas
                     => InsertedAt(bucket[k]) < InsertedAt(bucket[l])

Bucketed == pc \in {"sortQuotes", "baseline", "splits", "done", "ranAgain"}

Slots == (DOMAIN routesWithQuotes) \X (DOMAIN percents)

AllFieldsPresent(amountQuote) ==
  /\ amountQuote.quote # Absent
  /\ amountQuote.sqrtPriceX96AfterList # Absent
  /\ amountQuote.initializedTicksCrossedList # Absent
  /\ amountQuote.gasEstimate # Absent

ValidSlots == { s \in Slots : AllFieldsPresent(routesWithQuotes[s[1]][2][s[2]]) }

(* The quote of a bucket or the component of a plan is the one of the slot. *)
FromSlot(route, percent, rawQuote, amt, s) ==
  /\ route = routesWithQuotes[s[1]][1]
  /\ percent = percents[s[2]]
  /\ rawQuote = routesWithQuotes[s[1]][2][s[2]].quote[1]
  /\ amt = routesWithQuotes[s[1]][2][s[2]].amount

(* C23: the buckets hold exactly the valid slots of the response, slot i   *)
(* of a route in the bucket of percents[i]: an AmountQuote that misses any  *)
(* of quote, sqrtPriceX96AfterList, initializedTicksCrossedList or          *)
(* gasEstimate is in no bucket, and every component of a returned plan is   *)
(* a valid slot.                                                           *)
C23_OnlyValidQuotes ==
  Bucketed =>
    /\ \A p \in DOMAIN percentToQuotes :
         \A k \in DOMAIN percentToQuotes[p] :
           LET rq == percentToQuotes[p][k]
           IN /\ rq.percent = p
              /\ \E s \in ValidSlots : FromSlot(rq.route, p, rq.quote, rq.amount, s)
    /\ \A s \in ValidSlots :
         /\ percents[s[2]] \in DOMAIN percentToQuotes
         /\ \E k \in DOMAIN percentToQuotes[percents[s[2]]] :
              LET rq == percentToQuotes[percents[s[2]]][k]
              IN FromSlot(rq.route, rq.percent, rq.quote, rq.amount, s)
    /\ Total([p \in 1..Len(percents) |->
                IF percents[p] \in DOMAIN percentToQuotes
                THEN Len(percentToQuotes[percents[p]]) ELSE 0]) = Cardinality(ValidSlots)
    /\ Returned =>
         \A k \in DOMAIN swapRoute.routeAmounts :
           LET component == swapRoute.routeAmounts[k]
           IN \E s \in ValidSlots :
                FromSlot(component.route, component.percentage, component.quote,
                         component.amount, s)

(* A plan was returned although the response held, at 100%, a quote        *)
(* strictly better than the plan's that missed one of the two lists.       *)
C23_Witness ==
  /\ pc = "done"
  /\ Returned
  /\ \E s \in Slots \ ValidSlots :
       LET amountQuote == routesWithQuotes[s[1]][2][s[2]]
       IN /\ percents[s[2]] = 100
          /\ amountQuote.quote # Absent
          /\ amountQuote.gasEstimate # Absent
          /\ Better(amountQuote.quote[1], swapRoute.quoteGasAdjusted)

(* A sequence of distinct pools that chains from tIn and whose last pool   *)
(* involves tOut, whatever tokens it visits on the way.                    *)
EndsInTokenOut(rp, tIn, tOut) ==
  LET path == tokenPath(rp, tIn)
  IN /\ Len(rp) >= 1
     /\ \A n \in DOMAIN rp : involvesToken(rp[n], path[n])
     /\ involvesToken(rp[Len(rp)], tOut)
     /\ \A m, n \in DOMAIN rp : m # n => getPoolAddress(rp[m]) # getPoolAddress(rp[n])

(* C24: for tokenIn # tokenOut, reaching a pool that involves tokenOut     *)
(* does not end the branch: every chain of at most maxHops distinct pools   *)
(* from tokenIn whose last pool involves tokenOut is emitted, those that    *)
(* visit tokenOut at an intermediate hop included.                         *)
C24_ExtendsPastTokenOut ==
  (Enumerated /\ tokenIn # tokenOut) =>
    \A rp \in PoolSequences :
      EndsInTokenOut(rp, tokenIn, tokenOut) => \E r \in DOMAIN routes : routes[r].pools = rp

(* The tokens a selected pool touches.                                     *)
TokensOf(subgraphPool) == { subgraphPool.token0.id, subgraphPool.token1.id }

(* C25: topByTVLUsingTokenOutSecondHops comes from the pools of             *)
(* topByTVLUsingTokenIn only: it is empty when topByTVLUsingTokenIn is,     *)
(* whatever topByTVLUsingTokenOut holds, and each of its pools touches a    *)
(* token of some pool of topByTVLUsingTokenIn.                             *)
C25_SecondHopsSeededFromTokenIn ==
  Selected =>
    LET usingTokenIn == poolsBySelection["topByTVLUsingTokenIn"]
        secondHopPools == poolsBySelection["topByTVLUsingTokenOutSecondHops"]
    IN /\ usingTokenIn = << >> => secondHopPools = << >>
       /\ \A k \in DOMAIN secondHopPools :
            \E j \in DOMAIN usingTokenIn :
              TokensOf(secondHopPools[k]) \cap TokensOf(usingTokenIn[j]) # {}

(* topByTVLUsingTokenIn, topByTVLUsingTokenOut and the slice each hold a   *)
(* pool.                                                                   *)
C25_Witness ==
  /\ Selected
  /\ tokenIn # tokenOut
  /\ poolsBySelection["topByTVLUsingTokenOutSecondHops"] # << >>
  /\ poolsBySelection["topByTVLUsingTokenOut"] # << >>
  /\ poolsBySelection["topByTVLUsingTokenIn"] # << >>

(* The pools of the subgraph whose two tokens are in the token list.       *)
ListedPools ==
  { k \in DOMAIN allPools :
      /\ tokenExists(tokenList, allPools[k].token0.symbol)
      /\ tokenExists(tokenList, allPools[k].token1.symbol) }

Stage(at) ==
  CASE at = "getPoolsToConsider" -> 1
    [] at = "getGasPrice" -> 2
    [] at = "computeAllRoutes" -> 3
    [] at = "getAmountDistribution" -> 4
    [] at = "getQuotes" -> 5
    [] at \in {"getBestSwapRoute", "sortQuotes", "baseline", "splits"} -> 6
    [] OTHER -> 7

Optimiser == Stage("getBestSwapRoute")

Ending == Stage("done")

(* The request has gone past the stage, and not by a rejection.            *)
Past(stage) == Stage(pc) > stage /\ pc # "failed"

(* What each stage has in hand when it starts.                              *)
StageInputs ==
  /\ Stage(pc) >= 2 =>
       /\ poolsBySelection # << >>
       /\ pools = getAllPools(subgraphPoolsOf(poolsBySelection))
  /\ ~Past(3) => routes = << >>
  /\ Past(3) => routes = computeAllRoutes(tokenIn, tokenOut, pools,
                                           routingConfig.maxSwapsPerPath)
  /\ ~Past(4) => percents = << >> /\ amounts = << >>
  /\ Past(4) => Len(percents) >= 1 /\ Len(amounts) = Len(percents)
  /\ ~Past(5) => routesWithQuotes = << >> /\ percentToQuotes = << >>
  /\ Past(5) =>
       /\ Len(routesWithQuotes) = Len(routes)
       /\ \A r \in DOMAIN routes :
            /\ routesWithQuotes[r][1] = routes[r]
            /\ Len(routesWithQuotes[r][2]) = Len(amounts)
  /\ swapRoute # << >> => (pc = "done" /\ outcome = "plan")
  /\ outcome # "pending" => Stage(pc) = Ending

(* C26: the stages of a request run once each and in one order: pool       *)
(* selection, gas price, route enumeration, amount distribution, quote      *)
(* fetch, optimiser; each starts with what the stages before it produced,   *)
(* and a plan is there only once the optimiser has returned one.            *)
C26_StagesInOrder ==
  [][ /\ \/ Stage(pc') = Stage(pc) + 1
         \/ Stage(pc') = Optimiser /\ Stage(pc) = Optimiser
         \/ Stage(pc') = Ending /\ Stage(pc) \in {2, Optimiser}
      /\ StageInputs' ]_vars

(* A request went through every stage and returned a 2-split of the direct  *)
(* pool and the detour its pool selection found.                            *)
C26_Witness ==
  /\ pc = "done"
  /\ Returned
  /\ poolsBySelection["topByTVLUsingTokenIn"] # << >>
  /\ Len(routes) >= 2
  /\ Len(swapRoute.routeAmounts) = 2
  /\ \E k \in DOMAIN swapRoute.routeAmounts : Len(swapRoute.routeAmounts[k].route.pools) = 2

(* C28: for maxSplits in 1..3 a returned plan has at most maxSplits         *)
(* components (so none of 3 with maxSplits = 2), and with maxSplits = 1 it  *)
(* is the baseline alone: the head of the sorted bucket of 100, at 100%.    *)
C28_AtMostMaxSplits ==
  (Returned /\ routingConfig.maxSplits \in 1..3) =>
    /\ Len(swapRoute.routeAmounts) <= routingConfig.maxSplits
    /\ routingConfig.maxSplits = 1 =>
         /\ Len(swapRoute.routeAmounts) = 1
         /\ swapRoute.routeAmounts[1].percentage = 100
         /\ swapRoute.routeAmounts[1].route = percentToQuotes[100][1].route
         /\ swapRoute.quoteGasAdjusted = percentToQuotes[100][1].quoteAdjustedForGas

(* With maxSplits = 1 the baseline was returned although a 2-split beats    *)
(* it.                                                                      *)
C28_Witness ==
  /\ pc = "done"
  /\ Returned
  /\ routingConfig.maxSplits = 1
  /\ SomeTwoSplitBeatsBaseline

AllBucketsFilled == \A i \in DOMAIN percents : percents[i] \in DOMAIN percentToQuotes

(* The 2-splits the search looks at: the head of the bucket of one of the   *)
(* first ceil(K / 2) percents, and a quote of the complementary bucket      *)
(* whose route shares no pool with it.                                      *)
TwoSplits ==
  { << percentToQuotes[percents[i]][1], percentToQuotes[100 - percents[i]][b] >> :
      << i, b >> \in
        { ib \in (DOMAIN percents) \X (1..(Len(routes))) :
            /\ (ib[1] - 1) * 2 < Len(percents)
            /\ (100 - percents[ib[1]]) \in DOMAIN percentToQuotes
            /\ ib[2] \in DOMAIN percentToQuotes[100 - percents[ib[1]]]
            /\ Disjoint(percentToQuotes[percents[ib[1]]][1],
                        percentToQuotes[100 - percents[ib[1]]][ib[2]]) } }

(* C29: with maxSplits >= 2 and no bucket empty, no such 2-split sums to a  *)
(* quoteAdjustedForGas strictly better than the returned plan's.            *)
C29_AtLeastEveryTwoSplit ==
  (Returned /\ routingConfig.maxSplits >= 2 /\ AllBucketsFilled) =>
    \A ab \in TwoSplits :
      ~Better(ab[1].quoteAdjustedForGas + ab[2].quoteAdjustedForGas,
              swapRoute.quoteGasAdjusted)

(* A 2-split was returned that is strictly better than the baseline and     *)
(* than another of the 2-splits.                                            *)
C29_Witness ==
  /\ pc = "done"
  /\ Returned
  /\ routingConfig.maxSplits >= 2
  /\ AllBucketsFilled
  /\ Len(swapRoute.routeAmounts) = 2
  /\ Better(swapRoute.quoteGasAdjusted, percentToQuotes[100][1].quoteAdjustedForGas)
  /\ \E ab \in TwoSplits :
       Better(swapRoute.quoteGasAdjusted,
              ab[1].quoteAdjustedForGas + ab[2].quoteAdjustedForGas)

(* The sum of a sequence of fractions.                                     *)
RECURSIVE FractionTotal(_)
FractionTotal(fractions) ==
  IF fractions = << >> THEN Fraction(0, 1)
  ELSE LET rest == FractionTotal(Tail(fractions))
       IN Fraction(Head(fractions).numerator * rest.denominator
                     + rest.numerator * Head(fractions).denominator,
                   Head(fractions).denominator * rest.denominator)

(* C30: in a returned plan each component's amount is the requested amount  *)
(* times its percentage over 100, and the amounts of the components add up  *)
(* to the requested amount exactly.                                         *)
C30_AmountsAddUp ==
  Returned =>
    /\ \A k \in DOMAIN swapRoute.routeAmounts :
         equalTo(swapRoute.routeAmounts[k].amount,
                 Fraction(amount.numerator * swapRoute.routeAmounts[k].percentage,
                          amount.denominator * 100))
    /\ equalTo(FractionTotal([k \in DOMAIN swapRoute.routeAmounts |->
                                swapRoute.routeAmounts[k].amount]),
               amount)

(* A plan of three components, of which two carry a quarter of the amount   *)
(* each.                                                                    *)
C30_Witness ==
  /\ pc = "done"
  /\ Returned
  /\ Len(swapRoute.routeAmounts) = 3
  /\ \E k, l \in DOMAIN swapRoute.routeAmounts :
       /\ k # l
       /\ swapRoute.routeAmounts[k].percentage = 25
       /\ swapRoute.routeAmounts[l].percentage = 25
       /\ equalTo(swapRoute.routeAmounts[k].amount,
                  Fraction(amount.numerator, 4 * amount.denominator))

=============================================================================
